---- MODULE Spec2Model ----
(***************************************************************************)
(* Model of the simulation layer of mini-market-thief (src/src/App.tsx):   *)
(* the game state store, the player's interaction handler, the per-frame   *)
(* character and thief callbacks and the deferred placing-flag reset.      *)
(*                                                                         *)
(* Lengths are integers in millimetres (1.0 world unit = 1000), so every   *)
(* radius, speed and anchor of the source is an integer.  A test           *)
(* `Math.sqrt(dx*dx + dz*dz) < r` is the comparison of squared lengths     *)
(* dx*dx + dz*dz < r*r.  Times are in seconds.                             *)
(*                                                                         *)
(* React state is committed between callbacks: one action is one callback  *)
(* (a key event, a frame, a timeout) reading the state of the last render  *)
(* and queueing updates, followed by the commit.  The seeding effect,      *)
(* which the commit of an empty item list triggers, is an action of its    *)
(* own that runs before any further callback.                              *)
(*                                                                         *)
(* The copy of the held item in playerHoldingItem follows the character    *)
(* in every frame, for rendering; no test of the simulation reads the      *)
(* position of a held item, and the model keeps the one of the pickup.     *)
(***************************************************************************)
EXTENDS Integers, Sequences, FiniteSets

VARIABLES
    items,              \* GameStateProvider: items
    score,              \* GameStateProvider: score
    playerHoldingItem,  \* GameStateProvider: playerHoldingItem (<<>> is null)
    nextItemId,         \* GameStateProvider: nextItemId
    stolenItems,        \* GameStateProvider: stolenItems
    position,           \* Character: position, as <<x, z>> (y is baseHeight)
    keysPressed,        \* Character: keysPressed.current, the movement keys mapped to true
    isPlacingItem,      \* Character: isPlacingItem.current and gameState.isPlacingItem
    pendingResets,      \* number of scheduled, not yet run, placing-flag resets
    highlightedShelf,   \* gameState.highlightedShelf (<<>> is null)
    shelfEffects,       \* gameState.shelfEffects
    thiefPosition,      \* Thief: position, as <<x, z>>
    targetPosition,     \* Thief: targetPosition, as <<x, z>>
    thiefState,         \* Thief: thiefState
    targetItem,         \* Thief: targetItem (<<>> is null)
    thiefHoldingItem,   \* Thief: thiefHoldingItem (<<>> is null)
    waitTimer,          \* Thief: waitTimer
    fleeingCooldown,    \* Thief: fleeingCooldown
    thiefTargetItem,    \* gameState.thiefTargetItem (<<>> is null)
    placements,         \* history: number of successful placements so far
    created,            \* history: ids given to created items, in creation order
    visits,             \* history: number of times the thief left "waiting"
    stolenBeforeTheft,  \* history: stolenItems as it was before the last theft
    theftsInVisit       \* history: thefts since the thief last left "waiting"

vars == <<items, score, playerHoldingItem, nextItemId, stolenItems, position,
          keysPressed, isPlacingItem, pendingResets, highlightedShelf,
          shelfEffects, thiefPosition, targetPosition, thiefState, targetItem,
          thiefHoldingItem, waitTimer, fleeingCooldown, thiefTargetItem,
          placements, created, visits, stolenBeforeTheft, theftsInVisit>>

(***************************************************************************)
(* Bounds of the model.                                                    *)
(***************************************************************************)
MaxPlacements == 1
MaxVisits == 5
MaxDelta == 10
MaxShelved == 2

(***************************************************************************)
(* Static configuration and constants of the source.                       *)
(***************************************************************************)
SHELF_POSITIONS ==
    << <<-1500, -3000>>, <<-1500, -1000>>, <<-1500, 1000>>, <<-1500, 3000>>,
       <<1500, -3000>>,  <<1500, -1000>>,  <<1500, 1000>>,  <<1500, 3000>> >>

ITEM_TYPES == <<"Cereal", "Milk", "Soup", "Pasta", "Beans", "Juice">>

PickupRadius == 500
PlacementRadius == 800
ShelfWidth == 700
CharacterRadius == 200
baseSpeed == 35
playerBounds == 4500
spawnHeight == 200
baseHeight == 150
seedCount == 5
scoreStep == 10
thiefSpeed == 25
fleeingSpeed == 70
playerCollisionRadius == 700
waitSeconds == 10
cooldownSeconds == 5
stealRadius == 500
doorRadius == 500
arriveRadius == 100
doorPosition == <<-5500, -1500>>
storeEntryPoint == <<-4500, -1500>>

None == <<>>
Some(x) == <<x>>
Val(o) == o[1]

(***************************************************************************)
(* Arithmetic helpers.                                                     *)
(***************************************************************************)
Abs(n) == IF n < 0 THEN -n ELSE n
Max(a, b) == IF a > b THEN a ELSE b
Min(a, b) == IF a < b THEN a ELSE b
\* a / b rounded to the nearest integer, b > 0
RoundDiv(a, b) == (2 * a + b) \div (2 * b)
Dist2(p, q) == (p[1] - q[1]) * (p[1] - q[1]) + (p[2] - q[2]) * (p[2] - q[2])

RECURSIVE SqrtBetween(_, _, _)
SqrtBetween(n, lo, hi) ==
    IF lo >= hi THEN lo
    ELSE LET mid == (lo + hi + 1) \div 2
         IN  IF mid * mid <= n THEN SqrtBetween(n, mid, hi)
             ELSE SqrtBetween(n, lo, mid - 1)
\* floor of the square root
ISqrt(n) == SqrtBetween(n, 0, 16000)

XZ(p3) == <<p3[1], p3[3]>>

(***************************************************************************)
(* Inputs.  Each is a small set of values the source can read at that      *)
(* point: Math.random() draws, the frame's delta, the camera's heading.    *)
(***************************************************************************)
maxAttempts == 20
PointNearDoor == <<-3990, -1500>>
PointNearShelf == <<-790, -1500>>
Repeat(p, n) == [i \in 1..n |-> p]

\* One spawn's random draws: the points drawn by the sampling loop (at most
\* maxAttempts are read), the target shelf index and the type index.
SpawnInputs ==
    { [points |-> Repeat(PointNearShelf, maxAttempts), shelf |-> 2, type |-> 1],
      [points |-> Repeat(PointNearShelf, maxAttempts), shelf |-> 6, type |-> 2] }

\* The draws of one run of the seeding effect, one per seeded item: four items
\* by the door, the fifth by the second shelf, which is its own shelf or not.
SeedInputs ==
    { << [points |-> Repeat(PointNearDoor, maxAttempts), shelf |-> 6, type |-> 1],
         [points |-> Repeat(PointNearDoor, maxAttempts), shelf |-> 2, type |-> 2],
         [points |-> Repeat(PointNearDoor, maxAttempts), shelf |-> 6, type |-> 3],
         [points |-> Repeat(PointNearDoor, maxAttempts), shelf |-> 2, type |-> 4],
         [points |-> Repeat(PointNearShelf, maxAttempts), shelf |-> last, type |-> 5] >>
      : last \in {2, 6} }

\* Frame deltas, in seconds.
Deltas == {MaxDelta}

\* The delta of a frame too short for the timers to register (the clock's
\* first delta is 0): the thief stays waiting while the player walks.
StillDeltas == {0}

\* A sampling loop's draws: n draws at a shelf's anchor, then the point p.
PointInShelf == <<-1500, 1000>>
PointEast == <<3010, 10>>
PointAhead == <<-105, 400>>
PointBeside == <<-105, 150>>
Draws(n, p) == [i \in 1..maxAttempts |-> IF i <= n THEN PointInShelf ELSE p]

\* The draws of a seeding with two items near the start, the first of them
\* the farther from it, and items whose sampling meets collisions.
StrollSeedInputs ==
    { << [points |-> Draws(0, PointAhead), shelf |-> 5, type |-> 1],
         [points |-> Draws(3, PointBeside), shelf |-> 6, type |-> 2],
         [points |-> Draws(maxAttempts - 1, PointEast), shelf |-> 7, type |-> 3],
         [points |-> Draws(maxAttempts, PointEast), shelf |-> 8, type |-> 4],
         [points |-> Draws(1, PointEast), shelf |-> 5, type |-> 6] >> }

\* The draws of a seeding with two items within the player's reach at the
\* start: the first on the thief's side of the player, the second beyond.
PointWest == <<-480, -100>>
PointNigh == <<300, 100>>
GuardSeedInputs ==
    { << [points |-> Draws(0, PointWest), shelf |-> 5, type |-> 1],
         [points |-> Draws(0, PointNigh), shelf |-> 6, type |-> 2],
         [points |-> Draws(0, PointEast), shelf |-> 7, type |-> 3],
         [points |-> Draws(0, PointEast), shelf |-> 8, type |-> 4],
         [points |-> Draws(0, PointEast), shelf |-> 5, type |-> 6] >> }

\* Headings of the camera during the stroll: forward is +z, or -x.
StrollHeadings == { <<0, 1000>>, <<-1000, 0>> }

\* The direction "forward" maps to, (sin, cos) of the camera's heading plus pi,
\* in thousandths.
CameraHeadings == { <<-663, -749>> }

\* Math.random() * 3 - 1.5 twice: the thief's first interior target.
RandomTargets == { <<0, -1500>> }

\* The keys whose events the input adapter delivers.
Keys == {"w", " "}

\* The entries of keysPressed.current the frame callback reads.  The entry of
\* any other key (the interact key's among them) is written and never read,
\* and is left out of the state.
MovementKeys == {"w", "s", "a", "d", "arrowup", "arrowdown", "arrowleft", "arrowright"}

(***************************************************************************)
(* Spatial utilities.                                                      *)
(***************************************************************************)
\* Variant: the pickup test uses the placement radius.
isNearItemWide(characterPosition, item) ==
    Dist2(characterPosition, XZ(item.position)) < PlacementRadius * PlacementRadius

isNearItem(characterPosition, item) ==
    Dist2(characterPosition, XZ(item.position)) < PickupRadius * PickupRadius

\* Variant: the placement test accepts any shelf within the radius.
isNearAnyShelf(characterPosition, targetShelf) ==
    IF \E i \in 1..Len(SHELF_POSITIONS) :
           Dist2(characterPosition, SHELF_POSITIONS[i]) < PlacementRadius * PlacementRadius
    THEN Some(targetShelf)
    ELSE None

\* isNearShelf with a target shelf given: the shelf, or null.
isNearShelf(characterPosition, targetShelf) ==
    IF Dist2(characterPosition, targetShelf) < PlacementRadius * PlacementRadius
    THEN Some(targetShelf)
    ELSE None

\* distance < SHELF_SIZE.width / 2 + CHARACTER_SIZE.radius, doubled
checkCollisionWithShelves(x, z) ==
    \E i \in 1..Len(SHELF_POSITIONS) :
        4 * Dist2(<<x, z>>, SHELF_POSITIONS[i])
            < (ShelfWidth + 2 * CharacterRadius) * (ShelfWidth + 2 * CharacterRadius)

(***************************************************************************)
(* Item lifecycle.                                                         *)
(***************************************************************************)
\* Variant: the first draw is taken whether it collides or not.
sampleFirst(points, attempts) == points[attempts]

\* The do-while sampling loop: draw, count the attempt, stop at maxAttempts,
\* otherwise repeat while the draw collides.
RECURSIVE samplePosition(_, _)
samplePosition(points, attempts) ==
    LET p == points[attempts]
    IN  IF attempts >= maxAttempts THEN p
        ELSE IF checkCollisionWithShelves(p[1], p[2])
             THEN samplePosition(points, attempts + 1)
             ELSE p

newItem(id, in) ==
    LET p == samplePosition(in.points, 1)
    IN  [id |-> id,
         type |-> ITEM_TYPES[in.type],
         position |-> <<p[1], spawnHeight, p[2]>>,
         onShelf |-> FALSE,
         targetShelf |-> SHELF_POSITIONS[in.shelf]]

\* The seeding effect's item list: ids 0 .. seedCount - 1.
initialItems(seed) == [i \in 1..seedCount |-> newItem(i - 1, seed[i])]

\* Variant: the score counts placements.
addOne(s) == s + 1

\* setScore((s) => s + 10)
addScore(s) == s + scoreStep

\* Variant: the item stays in the list, marked as resting on its shelf.
markItem(currentItems, id) ==
    [i \in 1..Len(currentItems) |->
        IF currentItems[i].id = id
        THEN [currentItems[i] EXCEPT
                 !.onShelf = TRUE,
                 !.position = <<currentItems[i].targetShelf[1], 300,
                                currentItems[i].targetShelf[2]>>]
        ELSE currentItems[i]]

\* Variant: splice(findIndex(id), 1), which for an absent id removes the last item.
spliceItem(currentItems, id) ==
    LET at == {i \in 1..Len(currentItems) : currentItems[i].id = id}
        k == IF at = {} THEN Len(currentItems)
             ELSE CHOOSE i \in at : \A j \in at : i <= j
    IN  [i \in 1..(Len(currentItems) - 1) |->
            IF i < k THEN currentItems[i] ELSE currentItems[i + 1]]

removeItem(currentItems, id) == SelectSeq(currentItems, LAMBDA item : item.id # id)

\* gameState.playerHoldingItem: initialised to null and assigned nowhere.
gameStatePlayerHoldingItem == None

createShelfPlacementEffect(effects, shelfPosition) ==
    IF gameStatePlayerHoldingItem # None
    THEN Append(effects, [position |-> shelfPosition,
                          itemType |-> Val(gameStatePlayerHoldingItem).type])
    ELSE effects

\* The effect `gameState.thiefTargetItem = targetItem?.id || null`.
thiefTargetMirror(target) ==
    IF target = None THEN None
    ELSE IF Val(target).id = 0 THEN None
    ELSE Some(Val(target).id)

Ids(s) == {s[i].id : i \in 1..Len(s)}
SeqOfIds(s) == [i \in 1..Len(s) |-> s[i].id]

\* The useState and useRef initialisers, after the first seeding.
started ==
    /\ created = [i \in 1..seedCount |-> i - 1]
    /\ nextItemId = seedCount
    /\ score = 0
    /\ playerHoldingItem = None
    /\ stolenItems = 0
    /\ position = <<0, 0>>
    /\ keysPressed = {}
    /\ isPlacingItem = FALSE
    /\ pendingResets = 0
    /\ highlightedShelf = None
    /\ shelfEffects = <<>>
    /\ thiefPosition = doorPosition
    /\ targetPosition = doorPosition
    /\ thiefState = "waiting"
    /\ targetItem = None
    /\ thiefHoldingItem = None
    /\ waitTimer = waitSeconds
    /\ fleeingCooldown = 0
    /\ thiefTargetItem = None
    /\ placements = 0
    /\ visits = 0
    /\ stolenBeforeTheft = 0
    /\ theftsInVisit = 0

Init ==
    /\ \E seed \in SeedInputs : items = initialItems(seed)
    /\ started

thiefVars == <<thiefPosition, targetPosition, thiefState, targetItem,
               thiefHoldingItem, waitTimer, fleeingCooldown, thiefTargetItem,
               stolenItems, visits, stolenBeforeTheft, theftsInVisit>>

(***************************************************************************)
(* GameStateProvider's seeding effect: it depends on items.length and      *)
(* seeds whenever the rendered list is empty.  Init is the state after its *)
(* first run; while the list is empty it is the only action enabled.       *)
(***************************************************************************)
seedingEffect(seed) ==
    /\ Len(items) = 0
    /\ items' = initialItems(seed)
    /\ nextItemId' = seedCount
    /\ created' = created \o SeqOfIds(initialItems(seed))
    /\ UNCHANGED <<score, placements, playerHoldingItem, highlightedShelf,
                   keysPressed, isPlacingItem, pendingResets, shelfEffects,
                   position, thiefVars>>

rendered == Len(items) > 0

(***************************************************************************)
(* Character.handleItemInteraction.                                        *)
(***************************************************************************)
\* Variant: the nearest of the items in range is picked.
itemToPickupNearest ==
    LET near == SelectSeq(items, LAMBDA item : ~item.onShelf /\ isNearItem(position, item))
    IN  IF Len(near) = 0 THEN None
        ELSE Some(near[CHOOSE i \in 1..Len(near) :
                          \A j \in 1..Len(near) :
                              Dist2(position, XZ(near[i].position))
                                  <= Dist2(position, XZ(near[j].position))])

\* items.find(item => !item.onShelf && isNearItem(position, item))
itemToPickup ==
    LET near == SelectSeq(items, LAMBDA item : ~item.onShelf /\ isNearItem(position, item))
    IN  IF Len(near) = 0 THEN None ELSE Some(near[1])

\* Variant: the placement removes the item and keeps the held reference.
PlaceItemHolding(nearbyShelf) ==
    \E in \in SpawnInputs :
        LET placedItem == Val(playerHoldingItem)
            spawned == newItem(nextItemId, in)
        IN  /\ isPlacingItem' = TRUE
            /\ pendingResets' = pendingResets + 1
            /\ playerHoldingItem' = playerHoldingItem
            /\ highlightedShelf' = None
            /\ shelfEffects' = createShelfPlacementEffect(shelfEffects, nearbyShelf)
            /\ score' = addScore(score)
            /\ placements' = placements + 1
            /\ items' = Append(removeItem(items, placedItem.id), spawned)
            /\ nextItemId' = nextItemId + 1
            /\ created' = Append(created, spawned.id)

PlaceItem(nearbyShelf) ==
    \E in \in SpawnInputs :
        LET placedItem == Val(playerHoldingItem)
            spawned == newItem(nextItemId, in)
        IN  /\ isPlacingItem' = TRUE
            /\ pendingResets' = pendingResets + 1
            /\ playerHoldingItem' = None
            /\ highlightedShelf' = None
            /\ shelfEffects' = createShelfPlacementEffect(shelfEffects, nearbyShelf)
            /\ score' = addScore(score)
            /\ placements' = placements + 1
            /\ items' = Append(removeItem(items, placedItem.id), spawned)
            /\ nextItemId' = nextItemId + 1
            /\ created' = Append(created, spawned.id)

\* Variant: a pickup leaves the highlighted shelf as it is.
PickUpItemUnlit ==
    /\ IF itemToPickup # None
       THEN playerHoldingItem' = itemToPickup
       ELSE UNCHANGED playerHoldingItem
    /\ UNCHANGED <<items, nextItemId, created, score, placements, isPlacingItem,
                   pendingResets, shelfEffects, highlightedShelf>>

PickUpItem ==
    /\ IF itemToPickup # None
       THEN /\ playerHoldingItem' = itemToPickup
            /\ highlightedShelf' = Some(Val(itemToPickup).targetShelf)
       ELSE UNCHANGED <<playerHoldingItem, highlightedShelf>>
    /\ UNCHANGED <<items, nextItemId, created, score, placements, isPlacingItem,
                   pendingResets, shelfEffects>>

handleItemInteraction ==
    IF playerHoldingItem # None
    THEN LET nearbyShelf == isNearShelf(position, Val(playerHoldingItem).targetShelf)
         IN  IF nearbyShelf # None
             THEN PlaceItem(Val(nearbyShelf))
             ELSE UNCHANGED <<items, nextItemId, created, score, placements,
                              isPlacingItem, pendingResets, shelfEffects,
                              playerHoldingItem, highlightedShelf>>
    ELSE PickUpItem

(***************************************************************************)
(* Keyboard events and the deferred reset of the placing flag.             *)
(***************************************************************************)
handleKeyDown(key) ==
    /\ rendered
    /\ keysPressed' = keysPressed \cup ({key} \cap MovementKeys)
    /\ IF key = " "
       THEN handleItemInteraction
       ELSE UNCHANGED <<items, nextItemId, created, score, placements,
                        isPlacingItem, pendingResets, shelfEffects,
                        playerHoldingItem, highlightedShelf>>
    /\ UNCHANGED <<position, thiefVars>>

handleKeyUp(key) ==
    /\ rendered
    /\ keysPressed' = keysPressed \ ({key} \cap MovementKeys)
    /\ UNCHANGED <<items, nextItemId, created, score, placements, isPlacingItem,
                   pendingResets, shelfEffects, playerHoldingItem,
                   highlightedShelf, position, thiefVars>>

\* The callback of setTimeout(..., 100) scheduled by a placement.
placingReset ==
    /\ rendered
    /\ pendingResets > 0
    /\ pendingResets' = pendingResets - 1
    /\ isPlacingItem' = FALSE
    /\ UNCHANGED <<items, nextItemId, created, score, placements, shelfEffects,
                   playerHoldingItem, highlightedShelf, position, keysPressed,
                   thiefVars>>

(***************************************************************************)
(* Character's frame callback: movement.                                   *)
(***************************************************************************)
moveForward == "w" \in keysPressed \/ "arrowup" \in keysPressed
moveBackward == "s" \in keysPressed \/ "arrowdown" \in keysPressed
moveLeft == "a" \in keysPressed \/ "arrowleft" \in keysPressed
moveRight == "d" \in keysPressed \/ "arrowright" \in keysPressed
moving == moveForward \/ moveBackward \/ moveLeft \/ moveRight

\* moveAngle before the camera's rotation is added, in eighths of a turn:
\* the source's assignments in order, a later one overriding an earlier one.
moveEighths ==
    LET base == IF moveRight THEN 6
                ELSE IF moveLeft THEN 2
                ELSE IF moveBackward THEN 4
                ELSE 0
    IN  IF (moveForward \/ moveBackward) /\ (moveLeft \/ moveRight)
        THEN IF moveBackward /\ moveRight THEN 5
             ELSE IF moveBackward /\ moveLeft THEN 3
             ELSE IF moveForward /\ moveRight THEN 7
             ELSE IF moveForward /\ moveLeft THEN 1
             ELSE base
        ELSE base

\* sine and cosine of k eighths of a turn, in thousandths
Sin8(k) == <<0, 707, 1000, 707, 0, -707, -1000, -707>>[k + 1]
Cos8(k) == <<1000, 707, 0, -707, -1000, -707, 0, 707>>[k + 1]

\* (Math.sin(moveAngle) * baseSpeed, Math.cos(moveAngle) * baseSpeed)
moveStep(heading) ==
    LET s == heading[1] * Cos8(moveEighths) + heading[2] * Sin8(moveEighths)
        c == heading[2] * Cos8(moveEighths) - heading[1] * Sin8(moveEighths)
    IN  <<RoundDiv(baseSpeed * s, 1000000), RoundDiv(baseSpeed * c, 1000000)>>

\* Variant: no bounds.
noClamp(v) == v

clamp(v) == Max(-playerBounds, Min(playerBounds, v))

\* The position the character's frame callback sets.
\* Variant: a blocked move slides along x instead of being rejected.
characterMoveSliding(heading) ==
    IF moving
    THEN LET newX == position[1] + moveStep(heading)[1]
             newZ == position[2] + moveStep(heading)[2]
         IN  IF ~checkCollisionWithShelves(newX, newZ)
             THEN <<clamp(newX), clamp(newZ)>>
             ELSE <<clamp(newX), position[2]>>
    ELSE position

characterMove(heading) ==
    IF moving
    THEN LET newX == position[1] + moveStep(heading)[1]
             newZ == position[2] + moveStep(heading)[2]
         IN  IF ~checkCollisionWithShelves(newX, newZ)
             THEN <<clamp(newX), clamp(newZ)>>
             ELSE position
    ELSE position

(***************************************************************************)
(* Thief's frame callback.  Every test reads the state of the last render; *)
(* the updates are queued in the order of the source and the last update   *)
(* of a state variable wins, the updates made inside a timer's updater     *)
(* function being applied after the ones queued directly.                  *)
(***************************************************************************)
captured ==
    /\ thiefState # "waiting"
    /\ thiefState # "fleeing"
    /\ Dist2(thiefPosition, position) < playerCollisionRadius * playerCollisionRadius

dropsItem == captured /\ thiefHoldingItem # None

\* Variant: the recovered item keeps the position it was stolen from.
droppedItemInPlace == Val(thiefHoldingItem)

droppedItem ==
    [Val(thiefHoldingItem) EXCEPT
        !.position = <<thiefPosition[1], baseHeight, thiefPosition[2]>>]

targetPickedUp ==
    /\ targetItem # None
    /\ playerHoldingItem # None
    /\ Val(playerHoldingItem).id = Val(targetItem).id

waitExpired == thiefState = "waiting" /\ waitTimer <= 0

\* Variant: the arrival test in exact arithmetic, where the 36th step ends at
\* a distance of exactly 0.1.
entryReachedExact ==
    thiefState = "entering"
    /\ Dist2(thiefPosition, storeEntryPoint) < arriveRadius * arriveRadius

\* distanceToEntry < 0.1.  The thief steps from the door (x = -5.5) by 0.025 in
\* doubles, each sum rounding east, so that after 36 steps x is
\* -4.599999999999987 and the distance 0.09999999999998721: the nominal tie
\* at arriveRadius compares as less.
entryReached ==
    thiefState = "entering"
    /\ Dist2(thiefPosition, storeEntryPoint) <= arriveRadius * arriveRadius

availableItems ==
    SelectSeq(items, LAMBDA item :
        ~item.onShelf
        /\ (playerHoldingItem = None \/ item.id # Val(playerHoldingItem).id))

\* Variant: the scan replaces the closest item at an equal distance too, so
\* that the last of the items at the least distance is taken.
closestItemLastTie ==
    LET a == availableItems
        best == CHOOSE i \in 1..Len(a) :
                    /\ \A j \in 1..Len(a) :
                           Dist2(thiefPosition, XZ(a[i].position))
                               <= Dist2(thiefPosition, XZ(a[j].position))
                    /\ \A j \in (i + 1)..Len(a) :
                           Dist2(thiefPosition, XZ(a[j].position))
                               > Dist2(thiefPosition, XZ(a[i].position))
    IN  a[best]

\* The forEach scan: the first item at the least distance.
closestItem ==
    LET a == availableItems
        best == CHOOSE i \in 1..Len(a) :
                    /\ \A j \in 1..Len(a) :
                           Dist2(thiefPosition, XZ(a[i].position))
                               <= Dist2(thiefPosition, XZ(a[j].position))
                    /\ \A j \in 1..(i - 1) :
                           Dist2(thiefPosition, XZ(a[j].position))
                               > Dist2(thiefPosition, XZ(a[i].position))
    IN  a[best]

searchesTarget == thiefState = "searching" /\ targetItem = None
findsTarget == searchesTarget /\ Len(availableItems) > 0
findsNothing == searchesTarget /\ Len(availableItems) = 0
targetInvalid == thiefState = "searching" /\ targetItem # None /\ targetPickedUp

\* Variant: the theft does not look at what the player holds.
stealsHeld ==
    /\ thiefState = "searching"
    /\ targetItem # None
    /\ Dist2(thiefPosition, XZ(Val(targetItem).position)) < stealRadius * stealRadius

steals ==
    /\ thiefState = "searching"
    /\ targetItem # None
    /\ ~targetPickedUp
    /\ Dist2(thiefPosition, XZ(Val(targetItem).position)) < stealRadius * stealRadius

escaped ==
    /\ thiefState = "escaping"
    /\ Dist2(thiefPosition, doorPosition) < doorRadius * doorRadius

isOutsideStore ==
    Abs(thiefPosition[1]) > playerBounds \/ Abs(thiefPosition[2]) > playerBounds

atFleePoint ==
    /\ thiefState = "fleeing"
    /\ (Dist2(thiefPosition, doorPosition) < doorRadius * doorRadius \/ isOutsideStore)

cooledDown == atFleePoint /\ fleeingCooldown <= 0

\* Variant: the movement step runs in every state.
thiefMovesAlways == Dist2(targetPosition, thiefPosition) > arriveRadius * arriveRadius

\* The movement step towards the target position of the last render.
thiefMoves ==
    /\ thiefState # "waiting"
    /\ Dist2(targetPosition, thiefPosition) > arriveRadius * arriveRadius

thiefStep ==
    LET dirX == targetPosition[1] - thiefPosition[1]
        dirZ == targetPosition[2] - thiefPosition[2]
        length == ISqrt(dirX * dirX + dirZ * dirZ)
        currentSpeed == IF thiefState = "fleeing" THEN fleeingSpeed ELSE thiefSpeed
    IN  <<thiefPosition[1] + RoundDiv(dirX * currentSpeed, length),
          thiefPosition[2] + RoundDiv(dirZ * currentSpeed, length)>>

\* Variant: the thief goes on searching after a theft.
nextThiefStateGreedy ==
    IF waitExpired THEN "entering"
    ELSE IF cooledDown THEN "waiting"
    ELSE IF entryReached THEN "searching"
    ELSE IF findsNothing THEN "escaping"
    ELSE IF escaped THEN "waiting"
    ELSE IF captured THEN "fleeing"
    ELSE thiefState

\* Variant: a thief that finds nothing to steal keeps searching.
nextThiefStateLingers ==
    IF waitExpired THEN "entering"
    ELSE IF cooledDown THEN "waiting"
    ELSE IF entryReached THEN "searching"
    ELSE IF steals THEN "escaping"
    ELSE IF escaped THEN "waiting"
    ELSE IF captured THEN "fleeing"
    ELSE thiefState

\* Variant: the capture's state update wins over the switch's.
nextThiefStateCaptureLast ==
    IF waitExpired THEN "entering"
    ELSE IF cooledDown THEN "waiting"
    ELSE IF captured THEN "fleeing"
    ELSE IF entryReached THEN "searching"
    ELSE IF findsNothing \/ steals THEN "escaping"
    ELSE IF escaped THEN "waiting"
    ELSE thiefState

\* Variant: choosing a target enters the declared state "stealing".
nextThiefStateStealing ==
    IF waitExpired THEN "entering"
    ELSE IF cooledDown THEN "waiting"
    ELSE IF entryReached THEN "searching"
    ELSE IF findsTarget THEN "stealing"
    ELSE IF findsNothing \/ steals THEN "escaping"
    ELSE IF escaped THEN "waiting"
    ELSE IF captured THEN "fleeing"
    ELSE thiefState

nextThiefState ==
    IF waitExpired THEN "entering"
    ELSE IF cooledDown THEN "waiting"
    ELSE IF entryReached THEN "searching"
    ELSE IF findsNothing \/ steals THEN "escaping"
    ELSE IF escaped THEN "waiting"
    ELSE IF captured THEN "fleeing"
    ELSE thiefState

nextThiefPosition ==
    IF waitExpired \/ cooledDown THEN doorPosition
    ELSE IF thiefMoves THEN thiefStep
    ELSE IF escaped THEN doorPosition
    ELSE thiefPosition

nextTargetPosition(random) ==
    IF thiefState = "entering"
    THEN IF entryReached THEN random ELSE storeEntryPoint
    ELSE IF findsTarget THEN XZ(closestItem.position)
    ELSE IF findsNothing \/ steals THEN doorPosition
    ELSE IF thiefState = "fleeing" /\ ~atFleePoint THEN doorPosition
    ELSE IF captured THEN doorPosition
    ELSE targetPosition

nextTargetItem ==
    IF findsTarget THEN Some(closestItem)
    ELSE IF targetInvalid \/ escaped \/ cooledDown THEN None
    ELSE targetItem

\* Variant: the thief's held item survives its escape.
nextThiefHoldingItemKept ==
    IF steals THEN targetItem
    ELSE IF dropsItem THEN None
    ELSE thiefHoldingItem

nextThiefHoldingItem ==
    IF steals THEN targetItem
    ELSE IF escaped THEN None
    ELSE IF dropsItem THEN None
    ELSE thiefHoldingItem

\* Variant: the timer keeps running at expiry instead of being reset.
nextWaitTimerRunning(delta) ==
    IF thiefState = "waiting" THEN waitTimer - delta ELSE waitTimer

nextWaitTimer(delta) ==
    IF thiefState = "waiting"
    THEN IF waitTimer <= 0 THEN waitSeconds ELSE waitTimer - delta
    ELSE waitTimer

\* Variant: the cooldown runs during the whole flight.
nextFleeingCooldownAnywhere(delta) ==
    IF thiefState = "fleeing"
    THEN IF atFleePoint /\ fleeingCooldown <= 0 THEN 0 ELSE fleeingCooldown - delta
    ELSE IF captured THEN cooldownSeconds
    ELSE fleeingCooldown

nextFleeingCooldown(delta) ==
    IF atFleePoint
    THEN IF fleeingCooldown <= 0 THEN 0 ELSE fleeingCooldown - delta
    ELSE IF captured THEN cooldownSeconds
    ELSE fleeingCooldown

\* setItems: the dropped item appended on capture, then the stolen one removed.
nextItems ==
    LET afterCapture == IF dropsItem THEN Append(items, droppedItem) ELSE items
    IN  IF steals THEN removeItem(afterCapture, Val(targetItem).id) ELSE afterCapture

\* Variant: every capture takes one off the stolen count, floored at 0.
nextStolenItemsAnyCapture ==
    LET afterCapture == IF captured THEN Max(0, stolenItems - 1) ELSE stolenItems
    IN  IF steals THEN afterCapture + 1 ELSE afterCapture

\* Variant: a capture leaves the stolen count alone.
nextStolenItemsKept == IF steals THEN stolenItems + 1 ELSE stolenItems

nextStolenItems ==
    LET afterCapture == IF dropsItem THEN Max(0, stolenItems - 1) ELSE stolenItems
    IN  IF steals THEN afterCapture + 1 ELSE afterCapture

(***************************************************************************)
(* One frame: the character's and the thief's callbacks run on the state   *)
(* of the last render, then the commit.                                    *)
(***************************************************************************)
frame(delta, heading, random) ==
    /\ rendered
    /\ ~(waitExpired /\ visits >= MaxVisits)
    /\ position' = characterMove(heading)
    /\ thiefState' = nextThiefState
    /\ thiefPosition' = nextThiefPosition
    /\ targetPosition' = nextTargetPosition(random)
    /\ targetItem' = nextTargetItem
    /\ thiefTargetItem' = thiefTargetMirror(nextTargetItem)
    /\ thiefHoldingItem' = nextThiefHoldingItem
    /\ waitTimer' = nextWaitTimer(delta)
    /\ fleeingCooldown' = nextFleeingCooldown(delta)
    /\ stolenItems' = nextStolenItems
    /\ visits' = IF waitExpired THEN visits + 1 ELSE visits
    /\ stolenBeforeTheft' = IF steals THEN stolenItems ELSE stolenBeforeTheft
    /\ theftsInVisit' = IF waitExpired THEN 0
                        ELSE IF steals THEN theftsInVisit + 1
                        ELSE theftsInVisit
    /\ items' = nextItems
    /\ UNCHANGED <<score, placements, playerHoldingItem, highlightedShelf,
                   keysPressed, isPlacingItem, pendingResets, shelfEffects,
                   nextItemId, created>>

\* The key events of a session in which at most MaxPlacements items are placed.
KeyDown == \E key \in Keys : handleKeyDown(key) /\ placements' <= MaxPlacements
KeyUp == \E key \in Keys : handleKeyUp(key)
Frame == \E delta \in Deltas, heading \in CameraHeadings, random \in RandomTargets :
            frame(delta, heading, random)
PlacingReset == placingReset
SeedingEffect == \E seed \in SeedInputs : seedingEffect(seed)

Next == KeyDown \/ KeyUp \/ Frame \/ PlacingReset \/ SeedingEffect

Spec == Init /\ [][Next]_vars

(***************************************************************************)
(* The stroll: the player walks and interacts while the thief still waits  *)
(* behind the door, the frames being too short for its timer to register.  *)
(***************************************************************************)
InitStroll ==
    /\ \E seed \in StrollSeedInputs : items = initialItems(seed)
    /\ started

FrameStroll == \E delta \in StillDeltas, heading \in StrollHeadings, random \in RandomTargets :
                  frame(delta, heading, random)

NextStroll == KeyDown \/ KeyUp \/ FrameStroll

SpecStroll == InitStroll /\ [][NextStroll]_vars

(***************************************************************************)
(* The shelving: the player walks to the item by the second shelf, places  *)
(* it and the items spawned there, the thief still waiting behind the door;*)
(* at most MaxShelved items are placed.                                    *)
(***************************************************************************)
KeyDownShelving == \E key \in Keys : handleKeyDown(key) /\ placements' <= MaxShelved

FrameShelving == \E delta \in StillDeltas, heading \in CameraHeadings, random \in RandomTargets :
                    frame(delta, heading, random)

NextShelving == KeyDownShelving \/ KeyUp \/ FrameShelving \/ PlacingReset

SpecShelving == Init /\ [][NextShelving]_vars

(***************************************************************************)
(* The watch: the player stands at the start, where two items lie within   *)
(* reach, and may press the interact key, while the thief makes its visits.*)
(* The render loop calls the frame callbacks at every animation frame.     *)
(***************************************************************************)
Interact == handleKeyDown(" ")

NextWatch == Interact \/ Frame

SpecWatch == InitStroll /\ [][NextWatch]_vars /\ WF_vars(Frame)

(***************************************************************************)
(* The guard: the player stands at the start between two items and the     *)
(* thief's way in, and may press the interact key at any time.             *)
(***************************************************************************)
InitGuard ==
    /\ \E seed \in GuardSeedInputs : items = initialItems(seed)
    /\ started

SpecGuard == InitGuard /\ [][NextWatch]_vars

(***************************************************************************)
(* Properties.                                                             *)
(***************************************************************************)

\* C1: no two items of the active item set share an id.
C1_UniqueActiveIds == Cardinality(Ids(items)) = Len(items)

\* C2: the ids of the items ever created are pairwise distinct and strictly
\* increasing in creation order, each issued below the id counter.
C2_IdsIncreasing ==
    /\ \A i, j \in 1..Len(created) : i < j => created[i] < created[j]
    /\ \A i \in 1..Len(created) : created[i] < nextItemId

\* C3: the item held by the player and the item held by the thief never have
\* the same id.
C3_HeldIdsDiffer ==
    (playerHoldingItem # None /\ thiefHoldingItem # None)
        => Val(playerHoldingItem).id # Val(thiefHoldingItem).id

\* C4: when the thief is captured while holding the item X it stole, X is
\* back in the active set with onShelf = false and the stolen count is back
\* at the value it had before the theft.
C4_TheftRoundTrip ==
    [][(dropsItem /\ Frame) =>
          /\ \E i \in 1..Len(items') :
                 /\ items'[i].id = Val(thiefHoldingItem).id
                 /\ items'[i].type = Val(thiefHoldingItem).type
                 /\ ~items'[i].onShelf
          /\ stolenItems' = stolenBeforeTheft]_vars

\* A capture has just returned a stolen item: it lies at the thief's height.
C4_Recovered ==
    /\ thiefState = "fleeing"
    /\ thiefHoldingItem = None
    /\ stolenItems = stolenBeforeTheft
    /\ \E i \in 1..Len(items) : items[i].position[2] = baseHeight

\* C5: while the player holds X, an interact places X exactly when the player
\* is within the placement radius (0.8) of X's own target shelf; being near
\* any other shelf never places.
C5_PlacesIffNearOwnShelf ==
    (rendered /\ playerHoldingItem # None) =>
        IF Dist2(position, Val(playerHoldingItem).targetShelf) < 800 * 800
        THEN /\ placements < MaxPlacements =>
                    ENABLED (handleKeyDown(" ") /\ placements' = placements + 1)
             /\ ~ENABLED (handleKeyDown(" ") /\ placements' = placements)
        ELSE ~ENABLED (handleKeyDown(" ")
                       /\ <<placements, items, score, playerHoldingItem>>'
                              # <<placements, items, score, playerHoldingItem>>)

\* The player holds an item and stands within the placement radius of a shelf
\* that is not the item's own, out of reach of the item's own shelf.
C5_NearAnotherShelf ==
    /\ placements < MaxPlacements
    /\ playerHoldingItem # None
    /\ Dist2(position, Val(playerHoldingItem).targetShelf) >= 800 * 800
    /\ \E i \in 1..Len(SHELF_POSITIONS) :
           Dist2(position, SHELF_POSITIONS[i]) < 800 * 800

\* C6: a successful placement leaves the number of active items unchanged:
\* the placed item is removed and exactly one new item is added.
C6_PlacementKeepsCount ==
    [][placements' = placements + 1 => Len(items') = Len(items)]_vars

C8_ScoreCountsPlacements ==
    [][/\ score' = 10 * placements'
       /\ score' # score =>
              /\ score' = score + 10
              /\ placements' = placements + 1
              /\ playerHoldingItem # None
              /\ playerHoldingItem' = None
       /\ placements' # placements => score' = score + 10]_vars

\* The score after the placements the bound allows.
C8_Scored == placements = MaxPlacements /\ score = 10 * MaxPlacements

\* C9: every successful placement enqueues exactly one shelf effect, with the
\* shelf's position and the placed item's type.
C9_PlacementEnqueuesEffect ==
    [][placements' = placements + 1 =>
          shelfEffects' =
              Append(shelfEffects,
                     [position |-> Val(playerHoldingItem).targetShelf,
                      itemType |-> Val(playerHoldingItem).type])]_vars

\* C10: a frame with the thief searching, its target not held by the player
\* and closer than 0.5, leaves the target out of the active set, held by the
\* thief, the stolen count one higher and the thief escaping.
C10_Steal ==
    [][(/\ thiefState = "searching"
        /\ targetItem # None
        /\ ~(playerHoldingItem # None
             /\ Val(playerHoldingItem).id = Val(targetItem).id)
        /\ Dist2(thiefPosition, XZ(Val(targetItem).position)) < 500 * 500
        /\ Frame)
       => /\ Val(targetItem).id \notin Ids(items')
          /\ thiefHoldingItem' = targetItem
          /\ stolenItems' = stolenItems + 1
          /\ thiefState' = "escaping"]_vars

\* A theft has just happened with the player within the capture radius.
C10_StolenUnderCapture ==
    /\ thiefState = "escaping"
    /\ thiefHoldingItem # None
    /\ Val(thiefHoldingItem).id \notin Ids(items)
    /\ stolenItems = stolenBeforeTheft + 1
    /\ targetPosition = doorPosition
    /\ Dist2(thiefPosition, XZ(Val(thiefHoldingItem).position)) < 500 * 500
    /\ Dist2(thiefPosition, position) < 700 * 700

C12_CaptureFlees ==
    [][(/\ thiefState \in {"entering", "searching", "escaping"}
        /\ Dist2(thiefPosition, position) < 700 * 700
        /\ Frame)
       => thiefState' = "fleeing"]_vars

\* C13: the thief's state changes only along waiting -> entering -> searching
\* -> escaping -> waiting, from entering, searching or escaping to fleeing and
\* from fleeing to waiting; "stealing" is never entered.
C13_StateEdges ==
    [][/\ thiefState' # thiefState =>
              <<thiefState, thiefState'>> \in
                  { <<"waiting", "entering">>, <<"entering", "searching">>,
                    <<"searching", "escaping">>, <<"escaping", "waiting">>,
                    <<"entering", "fleeing">>, <<"searching", "fleeing">>,
                    <<"escaping", "fleeing">>, <<"fleeing", "waiting">> }
       /\ thiefState' # "stealing"]_vars

\* The thief is back at waiting after a capture and after a theft.
C13_RoundsDone ==
    /\ thiefState = "waiting"
    /\ visits >= 2
    /\ stolenItems >= 1
    /\ \E i \in 1..Len(items) : items[i].position[2] = baseHeight

\* C14: if the position one movement step ahead is within 0.55 of a shelf
\* anchor, the frame leaves the player's position exactly as it was.
C14_BlockedMoveRejected ==
    [][\A heading \in StrollHeadings :
          (/\ moving
           /\ \E i \in 1..Len(SHELF_POSITIONS) :
                  Dist2(<<position[1] + moveStep(heading)[1],
                          position[2] + moveStep(heading)[2]>>,
                        SHELF_POSITIONS[i]) < 550 * 550
           /\ \E delta \in StillDeltas, random \in RandomTargets :
                  frame(delta, heading, random))
          => position' = position]_vars

\* The player, walking, stands one step from a shelf's collision circle.
C14_AtShelf ==
    /\ moving
    /\ position # <<0, 0>>
    /\ \E heading \in StrollHeadings :
           checkCollisionWithShelves(position[1] + moveStep(heading)[1],
                                     position[2] + moveStep(heading)[2])

\* C15: the player's x and z are within [-4.5, 4.5] in every reachable state.
C15_WithinBounds ==
    /\ -4500 <= position[1] /\ position[1] <= 4500
    /\ -4500 <= position[2] /\ position[2] <= 4500

\* The player stands in the corner of the floor, still walking.
C15_InCorner == position = <<-4500, 4500>> /\ moving

\* C16: an interact with nothing eligible in range (holding nothing and no
\* free item within 0.5, or holding an item whose target shelf is not within
\* 0.8) completes and changes none of the active set, the held item, the
\* score, the id counter, the highlighted shelf and the placement guard.
C16_InteractNoOp ==
    (/\ rendered
     /\ IF playerHoldingItem = None
        THEN \A i \in 1..Len(items) :
                 \/ items[i].onShelf
                 \/ Dist2(position, XZ(items[i].position)) >= 500 * 500
        ELSE Dist2(position, Val(playerHoldingItem).targetShelf) >= 800 * 800)
    => /\ ENABLED handleKeyDown(" ")
       /\ ~ENABLED (handleKeyDown(" ")
                    /\ <<items, playerHoldingItem, score, nextItemId,
                         highlightedShelf, isPlacingItem>>'
                           # <<items, playerHoldingItem, score, nextItemId,
                                highlightedShelf, isPlacingItem>>)

\* The player holds nothing and a free item lies just out of reach: farther
\* than the pickup radius, closer than the placement radius.
C16_JustOutOfReach ==
    /\ playerHoldingItem = None
    /\ position # <<0, 0>>
    /\ \A i \in 1..Len(items) :
           Dist2(position, XZ(items[i].position)) >= 500 * 500
    /\ \E i \in 1..Len(items) :
           Dist2(position, XZ(items[i].position)) < 800 * 800

\* C17: an interact while holding nothing picks up an item exactly when some
\* item with onShelf = false is within 0.5 of the player, and the item picked
\* is the first such item of the active collection, nearest or not.
C17_PicksFirstInRange ==
    (rendered /\ playerHoldingItem = None) =>
        LET inRange == {i \in 1..Len(items) :
                           /\ ~items[i].onShelf
                           /\ Dist2(position, XZ(items[i].position)) < 500 * 500}
        IN  IF inRange = {}
            THEN ~ENABLED (handleKeyDown(" ") /\ playerHoldingItem' # None)
            ELSE /\ ENABLED handleKeyDown(" ")
                 /\ ~ENABLED (handleKeyDown(" ")
                              /\ playerHoldingItem' #
                                     Some(items[CHOOSE i \in inRange :
                                                    \A j \in inRange : i <= j]))

\* The player holds the first item of the collection while standing closer to
\* another free item that is in range too.
C17_HoldsFartherItem ==
    /\ playerHoldingItem # None
    /\ Val(playerHoldingItem) = items[1]
    /\ Dist2(position, XZ(items[1].position)) < 500 * 500
    /\ \E i \in 2..Len(items) :
           /\ ~items[i].onShelf
           /\ Dist2(position, XZ(items[i].position))
                  < Dist2(position, XZ(items[1].position))

\* C18: the game state is seeded exactly once, at the start: every item
\* created later is created by a placement, and the id counter is never
\* set back.
C18_SeededOnce ==
    /\ Len(created) = seedCount + placements
    /\ nextItemId = seedCount + placements

\* C19, over the draws the seeding reads: the sampling of a position ends
\* within 20 draws: the position chosen is the first draw that does not
\* collide with a shelf, or the 20th draw whether it collides or not, and lies
\* within [-4, 4] on both axes.
C19_ChoiceOfDraw ==
    \A seed \in StrollSeedInputs : \A i \in 1..seedCount :
        \A chosen \in {samplePosition(seed[i].points, 1)} :
            /\ \E n \in 1..20 :
                   /\ chosen = seed[i].points[n]
                   /\ \A k \in 1..(n - 1) :
                          \E sh \in 1..Len(SHELF_POSITIONS) :
                              Dist2(seed[i].points[k], SHELF_POSITIONS[sh]) < 550 * 550
                   /\ n < 20 =>
                          \A sh \in 1..Len(SHELF_POSITIONS) :
                              Dist2(chosen, SHELF_POSITIONS[sh]) >= 550 * 550
            /\ Abs(chosen[1]) <= 4000 /\ Abs(chosen[2]) <= 4000

\* C19: position sampling stops within 20 draws at the first draw that does
\* not collide, or at the 20th whatever it is, within [-4, 4] on both axes;
\* every seeded item lies at the position so chosen from its draws.
C19_SamplingStops ==
    /\ C19_ChoiceOfDraw
    /\ \A seed \in StrollSeedInputs : \A i \in 1..seedCount :
           \E j \in 1..Len(items) :
               /\ items[j].id = i - 1
               /\ XZ(items[j].position) = samplePosition(seed[i].points, 1)

\* A seeded item lies within a shelf's collision circle (its 20th draw), and
\* another lies free after draws that collided.
C19_TwentiethDrawKept ==
    /\ \E i \in 1..Len(items) :
           checkCollisionWithShelves(items[i].position[1], items[i].position[3])
    /\ \E i \in 1..Len(items) : XZ(items[i].position) = PointBeside
    /\ position # <<0, 0>>

\* C20: removing an item by id is idempotent. For every collection a step
\* produces: removing an id that is not in it leaves it unchanged, removing an
\* id twice gives what removing it once gives, and removing again an id the
\* step has just removed changes nothing.
C20_RemoveIdempotent ==
    [][items' # items =>
          /\ \A id \in 0..(nextItemId' + 1) :
                 /\ id \notin Ids(items') => removeItem(items', id) = items'
                 /\ removeItem(removeItem(items', id), id) = removeItem(items', id)
                 /\ id \notin Ids(removeItem(items', id))
          /\ \A id \in Ids(items) \ Ids(items') :
                 removeItem(items', id) = items']_vars

\* Items have been removed by thefts and by a placement.
C20_Removed ==
    /\ placements > 0
    /\ stolenItems > 0
    /\ Len(items) < seedCount

\* C21: the thief leaves waiting only through the dwell timer: while the timer
\* is positive a tick counts it down by the tick's delta and the thief stays
\* waiting where it is; at a tick with the timer expired it enters, at the
\* door anchor, with the timer back at 10.  No other step changes its state.
C21_WaitingLeavesByTimer ==
    [][thiefState = "waiting" =>
          IF thiefState' # "waiting" \/ waitTimer' # waitTimer
          THEN /\ Frame
               /\ IF waitTimer > 0
                  THEN /\ thiefState' = "waiting"
                       /\ waitTimer' < waitTimer
                       /\ waitTimer' >= waitTimer - MaxDelta
                       /\ thiefPosition' = thiefPosition
                  ELSE /\ thiefState' = "entering"
                       /\ thiefPosition' = <<-5500, -1500>>
                       /\ waitTimer' = 10
          ELSE waitTimer > 0 \/ ~Frame]_vars

\* The thief has just entered for a later visit: it stands at the door anchor
\* with the timer reset.
C21_EnteredAgain ==
    /\ thiefState = "entering"
    /\ visits >= 2
    /\ waitTimer = 10
    /\ thiefPosition = <<-5500, -1500>>
    /\ targetPosition = <<-5500, -1500>>

\* C22: a thief in entering walks the straight line from the door anchor to
\* the entry point and, unless captured first, eventually is searching; it
\* turns to searching only at a tick where it is within 0.1 of the entry
\* point (the walk of 36 steps of 0.025 ends, in doubles, at a distance of
\* 0.09999999999998721, the model's 100 mm).
C22_EnteringReachesSearching ==
    /\ [](thiefState = "entering" =>
             /\ thiefPosition[2] = -1500
             /\ thiefPosition[1] >= -5500
             /\ thiefPosition[1] <= -4600)
    /\ [][thiefState = "entering" =>
             /\ thiefPosition'[1] >= thiefPosition[1]
             /\ thiefState' \in {"entering", "searching", "fleeing"}
             /\ thiefState' = "searching" =>
                    Dist2(thiefPosition, <<-4500, -1500>>) <= 100 * 100]_vars
    /\ (thiefState = "entering") ~> (thiefState \in {"searching", "fleeing"})

\* The thief has walked in from the door for a later visit and is searching
\* from the end of the walk, 36 steps from the door anchor.
C22_WalkedIn ==
    /\ thiefState = "searching"
    /\ targetItem = None
    /\ thiefPosition = <<-4600, -1500>>
    /\ visits >= 2

\* C23: a thief searching without a target selects, at its tick, an item of
\* the active set that is not on a shelf and not held by the player, at the
\* least planar distance among such items and the first of them in the
\* list's order at that distance; it selects one whenever there is one.
C23_TargetsNearestFree ==
    [][(thiefState = "searching" /\ targetItem = None) =>
          LET free(i) == /\ ~items[i].onShelf
                         /\ \/ playerHoldingItem = None
                            \/ items[i].id # Val(playerHoldingItem).id
              far(i) == Dist2(thiefPosition, XZ(items[i].position))
          IN  /\ targetItem' # None =>
                     \E i \in 1..Len(items) :
                         /\ items[i] = Val(targetItem')
                         /\ free(i)
                         /\ \A j \in 1..Len(items) : free(j) => far(i) <= far(j)
                         /\ \A j \in 1..(i - 1) : free(j) => far(j) > far(i)
              /\ (Frame /\ \E i \in 1..Len(items) : free(i)) => targetItem' # None]_vars

\* The thief has chosen its target among several free items lying at the
\* same distance, while the player holds another item.
C23_ChoseAmongTies ==
    /\ thiefState = "searching"
    /\ targetItem # None
    /\ playerHoldingItem # None
    /\ Val(playerHoldingItem).id # Val(targetItem).id
    /\ \E i \in 1..Len(items) :
           /\ items[i].id # Val(targetItem).id
           /\ XZ(items[i].position) = XZ(Val(targetItem).position)

\* C24: when the thief is searching without a target and every active item is
\* on a shelf or held by the player, its tick turns it to escaping, towards
\* the door, without a theft: the active set, the stolen count and the item
\* it holds (none) are unchanged and it has no target.
C24_NothingToSteal ==
    [][(/\ thiefState = "searching"
        /\ targetItem = None
        /\ \A i \in 1..Len(items) :
               \/ items[i].onShelf
               \/ /\ playerHoldingItem # None
                  /\ items[i].id = Val(playerHoldingItem).id
        /\ Frame) =>
          /\ thiefState' = "escaping"
          /\ targetPosition' = <<-5500, -1500>>
          /\ items' = items
          /\ stolenItems' = stolenItems
          /\ targetItem' = None
          /\ thiefHoldingItem = None
          /\ thiefHoldingItem' = None]_vars

\* The thief escapes empty-handed with an item left in the store: the one the
\* player holds.
C24_LeftEmptyHanded ==
    /\ thiefState = "escaping"
    /\ thiefHoldingItem = None
    /\ targetItem = None
    /\ playerHoldingItem # None
    /\ \E i \in 1..Len(items) : items[i].id = Val(playerHoldingItem).id

C26_EscapeKeepsLoot ==
    /\ [](thiefState = "waiting" => thiefHoldingItem = None)
    /\ [][(/\ thiefState = "escaping"
           /\ Dist2(thiefPosition, <<-5500, -1500>>) < 500 * 500
           /\ Dist2(thiefPosition, position) >= 700 * 700
           /\ Frame) =>
             /\ thiefState' = "waiting"
             /\ targetItem' = None
             /\ thiefHoldingItem' = None
             /\ items' = items
             /\ stolenItems' = stolenItems]_vars
    /\ [][(/\ created' = created
           /\ \/ stolenItems' < stolenItems
              \/ \E j \in 1..Len(items') : \A i \in 1..Len(items) : items'[j] # items[i]) =>
             /\ thiefHoldingItem # None
             /\ thiefState \in {"entering", "searching", "escaping"}
             /\ Dist2(thiefPosition, position) < 700 * 700
             /\ \E j \in 1..Len(items') : items'[j].id = Val(thiefHoldingItem).id]_vars

\* The thief is back behind the door after escaping with an item: it holds
\* nothing, the item is counted as stolen and is missing from the store.
C26_GotAway ==
    /\ thiefState = "waiting"
    /\ visits = 1
    /\ thiefHoldingItem = None
    /\ targetItem = None
    /\ stolenItems = 1
    /\ Len(items) = seedCount - 1

\* C27: the thief starts to flee with a cooldown of 5; while it flees the
\* cooldown changes only at ticks where the thief is within 0.5 of the door
\* or outside the store (|x| > 4.5 or |z| > 4.5), where it is counted down by
\* the tick's delta; the thief leaves fleeing only for waiting, at such a
\* tick with the cooldown used up; and a fleeing thief eventually is waiting.
C27_FleeingCoolsDown ==
    /\ [][(thiefState # "fleeing" /\ thiefState' = "fleeing") => fleeingCooldown' = 5]_vars
    /\ [][thiefState = "fleeing" =>
             LET atDoor == \/ Dist2(thiefPosition, <<-5500, -1500>>) < 500 * 500
                           \/ Abs(thiefPosition[1]) > 4500
                           \/ Abs(thiefPosition[2]) > 4500
             IN  /\ fleeingCooldown' # fleeingCooldown =>
                        /\ atDoor
                        /\ IF fleeingCooldown > 0
                           THEN /\ fleeingCooldown' < fleeingCooldown
                                /\ fleeingCooldown' >= fleeingCooldown - MaxDelta
                           ELSE fleeingCooldown' = 0
                 /\ thiefState' # "fleeing" =>
                        /\ thiefState' = "waiting"
                        /\ atDoor
                        /\ fleeingCooldown <= 0
                 /\ (atDoor /\ fleeingCooldown > 0 /\ Frame) =>
                        fleeingCooldown' < fleeingCooldown]_vars
    /\ (thiefState = "fleeing") ~> (thiefState = "waiting")

\* The captured thief has fled out of the store and its cooldown is running.
C27_CoolingDown ==
    /\ thiefState = "fleeing"
    /\ thiefPosition[1] < -4500
    /\ fleeingCooldown < 5

C29_FlagSetUntilDelayElapsed == pendingResets > 0 => isPlacingItem

\* C30: keyboard events are only buffered: a key-down or key-up event changes
\* nothing but the pressed-key set, leaving the active set, the held item,
\* the score and the highlighted shelf to the frame ticks.
C30_KeyEventsOnlyBuffered ==
    [][(KeyDown \/ KeyUp) =>
          UNCHANGED <<items, playerHoldingItem, score, highlightedShelf,
                      nextItemId, isPlacingItem, position, thiefVars>>]_vars

\* C31: in every reachable state, if the player holds an item then an item
\* with that id is present in the active collection: a placement clears the
\* held reference when it removes the item, and no theft removes the held item.
C31_HeldItemIsActive ==
    playerHoldingItem # None => Val(playerHoldingItem).id \in Ids(items)

\* The player holds an item after a placement and a theft have happened.
C31_HoldsAfterTheftAndPlacement ==
    /\ playerHoldingItem # None
    /\ placements > 0
    /\ stolenItems > 0

\* C32: the thief-target id published in the shared game state always mirrors
\* the thief's own target: it is the target item's id whenever the thief has a
\* target item, whatever the id (id 0 included), and null exactly when the
\* thief has no target.
C32_PublishedIdMirrorsTarget ==
    /\ targetItem # None => thiefTargetItem = Some(Val(targetItem).id)
    /\ targetItem = None <=> thiefTargetItem = None

\* C33: item conservation: in every reachable state after seeding, the number
\* of items in the active collection plus the stolen count equals the seeded
\* baseline of 5.
C33_ItemsPlusStolenIsBaseline == Len(items) + stolenItems = 5

\* C34: the stolen count is never negative and always equals the number of
\* thefts minus the number of recoveries: it starts at 0, a step changes it by
\* +1 for a theft (the thief takes an item in hand) and by -1 for a recovery
\* (the item in the thief's hand goes back to the active collection), every
\* recovery finds the count at 1 or more, and no other step changes it.
C34_StolenCountsTheftsLessRecoveries ==
    /\ [](stolenItems >= 0)
    /\ [][LET theft == thiefHoldingItem' # None /\ thiefHoldingItem' # thiefHoldingItem
              recovery == /\ thiefHoldingItem # None
                          /\ created' = created
                          /\ Len(items') = Len(items) + 1
          IN  /\ ~(theft /\ recovery)
              /\ theft => stolenItems' = stolenItems + 1
              /\ recovery => stolenItems >= 1 /\ stolenItems' = stolenItems - 1
              /\ ~theft /\ ~recovery => stolenItems' = stolenItems]_vars

\* The item of the latest theft has been recovered while earlier loot is gone:
\* the count is back at its value before that theft.
C34_RecoveredAfterLoss ==
    /\ thiefState = "fleeing"
    /\ thiefHoldingItem = None
    /\ stolenItems >= 1
    /\ stolenItems = stolenBeforeTheft

\* C35: in every reachable state, if the thief holds an item then the thief's
\* state is escaping; the thief holds nothing while waiting, entering,
\* searching or fleeing.
C35_HoldsOnlyEscaping == thiefHoldingItem # None => thiefState = "escaping"

\* The thief escapes with an item in hand, the player within the capture
\* radius.
C35_CaughtWithLoot ==
    /\ thiefHoldingItem # None
    /\ thiefState = "escaping"
    /\ Dist2(thiefPosition, position) < 700 * 700

\* C36: the thief steals at most one item per visit: between leaving waiting
\* and the next return to waiting the stolen count is incremented at most
\* once, also when a capture and a theft fall in the same tick; every theft
\* is the first of its visit and adds exactly one to the count.
C36_OneTheftPerVisit ==
    /\ [](theftsInVisit <= 1)
    /\ [][stolenItems' > stolenItems =>
              /\ theftsInVisit = 0
              /\ theftsInVisit' = 1
              /\ stolenItems' = stolenItems + 1]_vars

\* The thief is waiting again after a second or later visit in which it stole
\* an item and lost it to the player.
C36_VisitWithTheftEnded ==
    /\ thiefState = "waiting"
    /\ theftsInVisit = 1
    /\ visits >= 2
    /\ stolenItems = stolenBeforeTheft

\* C37: in every reachable state the player's position is not in collision
\* with any shelf: starting from (0, 0), after any sequence of movement ticks
\* (the clamped ones included) its planar distance to every shelf anchor is at
\* least 0.55.
C37_PlayerClearOfShelves ==
    \A i \in 1..Len(SHELF_POSITIONS) :
        Dist2(position, SHELF_POSITIONS[i]) >= 550 * 550

\* The player has walked up to a shelf: less than one step separates it from
\* the shelf's collision circle.
C37_OneStepFromShelf ==
    /\ position # <<0, 0>>
    /\ \E i \in 1..Len(SHELF_POSITIONS) :
           Dist2(position, SHELF_POSITIONS[i]) < 585 * 585

\* C38: in every reachable state the highlighted shelf is non-null if and only
\* if the player holds an item, and then it equals the held item's assigned
\* target shelf.
C38_HighlightIsHeldTarget ==
    IF playerHoldingItem = None
    THEN highlightedShelf = None
    ELSE highlightedShelf = Some(Val(playerHoldingItem).targetShelf)

\* The player holds an item picked up after a placement, its shelf highlighted.
C38_SecondItemHighlighted ==
    /\ playerHoldingItem # None
    /\ highlightedShelf # None
    /\ placements > 0

\* C39: whenever the thief goes from escaping to waiting, its position after
\* that tick is exactly the door anchor (the movement step of the same tick
\* does not override the reset), so a waiting thief is always located at the
\* door anchor.
C39_WaitingThiefAtDoor ==
    /\ [][thiefState = "escaping" /\ thiefState' = "waiting"
              => thiefPosition' = <<-5500, -1500>>]_vars
    /\ [](thiefState = "waiting" => thiefPosition = <<-5500, -1500>>)

====
